---- MODULE Spec2Model ----
(***************************************************************************)
(* Model of examples/tutorial_optuna.ipynb: the SNNTrainer class (training *)
(* loop with the rudimentary early stop, and the accuracy evaluation), the *)
(* construction of Net and its spike counters, optuna_objective with its   *)
(* pruning gate, and the loop of the study cell.                           *)
(*                                                                         *)
(* Numbers.  Losses are non-negative integers (a fixed-point scale of the  *)
(* float loss); float("inf") is the value Inf.  The significance           *)
(* sig_improvement is an exact fraction <<numerator, denominator>>, so the *)
(* comparison  current_loss < (1 - sig_improvement) * best_loss  is        *)
(* decided by cross-multiplication.  Accuracies are exact fractions too.   *)
(***************************************************************************)
EXTENDS Integers, Sequences, FiniteSets, TLC

\* ------------------------------------------------------------------ bounds
MaxEpochs == 3      \* num_epochs ranges over 0..MaxEpochs
MaxBatches == 2     \* len(train_loader) ranges over 0..MaxBatches
MaxPatience == 2    \* patience ranges over 0..MaxPatience
MaxLayers == 2      \* net.num_hidden_layers ranges over 1..MaxLayers
MaxEvalBatches == 2 \* len(test_loader) ranges over 0..MaxEvalBatches
MaxBatchSize == 3   \* data.size(0) ranges over 1..MaxBatchSize
MaxLongBatches == 201 \* the longest loader of the accuracy-sampling runs
MaxAdditional == 3  \* additional_trials ranges over 1..MaxAdditional
MaxStart == 1       \* completed trials before the cell ranges over 0..MaxStart
MaxPruned == 4      \* pruned trials of a study, at most

\* --------------------------------------------------------------- constants
\* float("inf"), the initial best_loss.
Inf == -1
\* The accuracy display period of train: "if i % 100 == 0 and i != 0".
AccEvery == 100
\* patience=300, the default of SNNTrainer.__init__.
DefaultPatience == 300
\* num_epochs=30, the default of SNNTrainer.__init__.
DefaultEpochs == 30
\* num_inputs = 28 * 28 and num_outputs = 10 of Net.__init__.
num_inputs == 28 * 28
num_outputs == 10

\* Losses the loss function can return for a batch (in 1/200 of a unit, so
\* that 190 is exactly 95% of 200 and 0 is the least loss there is).
LossValues == {0, 190, 200}
\* Accuracies SF.accuracy_rate can return for a training batch, in percent.
AccValues == {0, 50, 100}
\* Values of the constructor's sig_improvement: 0 and the default 0.05.
BaseSignificance == {<<0, 1>>, <<1, 20>>}
\* Spikes one forward pass can add to total_spike_count: those of a batch of
\* the test loader, and those of a training batch of the training loop alone.
SpikeValues == {0, 2}
TrainSpikes == {1}

VARIABLES
    \* SNNTrainer fields and constructor arguments
    num_epochs, patience, sig_improvement, num_hidden_layers,
    loss_hist, acc_hist, epochs, batches,
    \* train(): the loader's length, the locals and the loop position
    train_len, best_loss, loss_counter, epoch, i, state,
    \* get_accuracy(): the loader, the locals and the position
    test_loader, eval_idx, total_acc, total, eval_pc, eval_result,
    \* Net: the spike counters, and nn.Module's training flag
    forward_count, total_spike_count, training,
    \* Net.__init__: its arguments, the layer list and the position
    num_steps, num_hidden_neurons, beta1, net_layers, layer_n, net_pc,
    \* how SNNTrainer.__init__ ended, and the exception train propagates
    ctor, error,
    \* optuna_objective: the position and the second objective
    obj_pc, spikes_per_digit,
    \* the study cell: its globals, the study's trials and the position
    additional_trials, start_trials, target_trials, complete, pruned,
    trials_left, remaining_trials, study_pc

configVars == <<num_epochs, patience, sig_improvement, num_hidden_layers, train_len>>
histVars == <<loss_hist, acc_hist, epochs, batches>>
stopVars == <<best_loss, loss_counter>>
loopVars == <<epoch, i, state>>
trainVars == <<histVars, stopVars, loopVars>>
evalVars == <<test_loader, eval_idx, total_acc, total, eval_pc, eval_result>>
netVars == <<forward_count, total_spike_count, training>>
buildVars == <<num_steps, num_hidden_neurons, beta1, net_layers, layer_n, net_pc>>
objVars == <<obj_pc, spikes_per_digit>>
studyVars == <<additional_trials, start_trials, target_trials, complete, pruned,
               trials_left, remaining_trials, study_pc>>
otherVars == <<buildVars, ctor, error, objVars, studyVars>>
vars == <<configVars, trainVars, evalVars, netVars, otherVars>>

\* ------------------------------------------------------- SNNTrainer.__init__
\* self.sig_improvement = sig_improvement/(net.num_hidden_layers**3)
SigActual(base, layers) == <<base[1], base[2] * layers * layers * layers>>

\* The fields __init__ sets, and the locals train() sets before its loops.
Constructed ==
    /\ num_epochs \in 0..MaxEpochs
    /\ patience \in 0..MaxPatience
    /\ num_hidden_layers \in 1..MaxLayers
    /\ \E base \in BaseSignificance :
          sig_improvement = SigActual(base, num_hidden_layers)
    /\ loss_hist = <<>>
    /\ acc_hist = <<>>
    /\ epochs = 0
    /\ batches = 0

TrainEntry ==
    /\ best_loss = Inf
    /\ loss_counter = 0
    /\ epoch = 0
    /\ i = 0
    /\ state = "Running"

\* Outside a call of get_accuracy.
EvalIdle ==
    /\ test_loader = <<>>
    /\ eval_idx = 0
    /\ total_acc = <<0, 1>>
    /\ total = 0
    /\ eval_pc = "idle"
    /\ eval_result = "none"

\* A network as Net.__init__ leaves it: reset_spikes(), and training mode.
NetFresh ==
    /\ forward_count = 0
    /\ total_spike_count = 0
    /\ training = TRUE

\* Outside Net.__init__: the layer list is not looked at.
BuildIdle ==
    /\ num_steps = 0
    /\ num_hidden_neurons = 0
    /\ beta1 = 0
    /\ net_layers = <<>>
    /\ layer_n = 0
    /\ net_pc = "idle"

\* Outside optuna_objective.
ObjectiveIdle ==
    /\ obj_pc = "idle"
    /\ spikes_per_digit = <<0, 1>>

\* Outside the study cell.
StudyIdle ==
    /\ additional_trials = 0
    /\ start_trials = 0
    /\ target_trials = 0
    /\ complete = 0
    /\ pruned = 0
    /\ trials_left = 0
    /\ remaining_trials = 0
    /\ study_pc = "idle"

\* A trainer that __init__ returned, in a call of train that raised nothing.
TrainerOk ==
    /\ ctor = "ok"
    /\ error = "none"

Init ==
    /\ Constructed
    /\ train_len \in 0..MaxBatches
    /\ TrainEntry
    /\ EvalIdle
    /\ NetFresh
    /\ BuildIdle
    /\ TrainerOk
    /\ ObjectiveIdle
    /\ StudyIdle

\* ---------------------------------------------------------------- Net.forward
\* One forward pass: the spikes of all layers and steps are added to
\* total_spike_count, and forward_count is advanced.
Forward(spikes) ==
    /\ total_spike_count' = total_spike_count + spikes
    /\ forward_count' = forward_count + 1

\* ---------------------------------------------------------- SNNTrainer.train
\* A bug variant of Improves: "<=" where the code has "<".
ImprovesOrEqual(current_loss, best) ==
    IF best = Inf
    THEN sig_improvement[1] < sig_improvement[2]
    ELSE current_loss * sig_improvement[2]
            <= (sig_improvement[2] - sig_improvement[1]) * best

\* A bug variant of Improves: the comparison turned round.
ImprovesReversed(current_loss, best) ==
    IF best = Inf
    THEN sig_improvement[1] < sig_improvement[2]
    ELSE current_loss * sig_improvement[2]
            > (sig_improvement[2] - sig_improvement[1]) * best

\* A bug variant of Improves: the significance is not applied.
ImprovesAny(current_loss, best) ==
    best = Inf \/ current_loss < best

\* current_loss < (1-self.sig_improvement)*best_loss
\* With best = inf the right-hand side is inf when 1 - sig_improvement > 0
\* (every finite loss is smaller), and nan or -inf otherwise (nothing is).
Improves(current_loss, best) ==
    IF best = Inf
    THEN sig_improvement[1] < sig_improvement[2]
    ELSE current_loss * sig_improvement[2]
            < (sig_improvement[2] - sig_improvement[1]) * best

\* A bug variant of ShouldStop: ">=" where the code has ">".
ShouldStopAtPatience(ep, counter) == ep > 0 /\ counter >= patience

\* A bug variant of ShouldStop: the first epoch is not protected.
ShouldStopAnyEpoch(ep, counter) == counter > patience

\* epoch > 0 and loss_counter > self.patience
ShouldStop(ep, counter) == ep > 0 /\ counter > patience

\* A bug variant of StopOrContinue: "break" where the code has "return".
StopWithBreak(stop) ==
    IF stop
    THEN state' = state /\ i' = train_len
    ELSE state' = state /\ i' = i + 1

\* "return" when the decision is true, else on to the next batch.
StopOrContinue(stop) ==
    IF stop
    THEN state' = "StoppedEarly" /\ i' = i
    ELSE state' = state /\ i' = i + 1

\* A bug variant of TrainBatch: the accuracy is sampled by the run-wide batch
\* count instead of the index within the epoch.
TrainBatchSamplesRunWide(current_loss, acc, spikes) ==
    /\ state = "Running"
    /\ epoch < num_epochs
    /\ i < train_len
    /\ training' = TRUE
    /\ Forward(spikes)
    /\ loss_hist' = Append(loss_hist, current_loss)
    /\ acc_hist' = IF (batches + 1) % AccEvery = 0
                   THEN Append(acc_hist, acc)
                   ELSE acc_hist
    /\ IF Improves(current_loss, best_loss)
       THEN best_loss' = current_loss /\ loss_counter' = 0
       ELSE best_loss' = best_loss /\ loss_counter' = loss_counter + 1
    /\ batches' = batches + 1
    /\ StopOrContinue(ShouldStop(epoch, loss_counter'))
    /\ UNCHANGED <<epochs, epoch, configVars, evalVars, otherVars>>

\* One pass through the body of the inner loop, for the batch at index i of
\* epoch `epoch`, whose loss is current_loss and whose accuracy is acc, and
\* on which the network emits `spikes` spikes.
TrainBatch(current_loss, acc, spikes) ==
    /\ state = "Running"
    /\ epoch < num_epochs
    /\ i < train_len
    /\ training' = TRUE
    /\ Forward(spikes)
    /\ loss_hist' = Append(loss_hist, current_loss)
    /\ acc_hist' = IF i % AccEvery = 0 /\ i # 0
                   THEN Append(acc_hist, acc)
                   ELSE acc_hist
    /\ IF Improves(current_loss, best_loss)
       THEN best_loss' = current_loss /\ loss_counter' = 0
       ELSE best_loss' = best_loss /\ loss_counter' = loss_counter + 1
    /\ batches' = batches + 1
    /\ StopOrContinue(ShouldStop(epoch, loss_counter'))
    /\ UNCHANGED <<epochs, epoch, configVars, evalVars, otherVars>>

\* A bug variant of EndEpoch: the batches counter restarts with each epoch.
EndEpochResetsBatches ==
    /\ state = "Running"
    /\ epoch < num_epochs
    /\ i = train_len
    /\ epochs' = epochs + 1
    /\ epoch' = epoch + 1
    /\ i' = 0
    /\ batches' = 0
    /\ UNCHANGED <<loss_hist, acc_hist, stopVars, state,
                   configVars, evalVars, netVars, otherVars>>

\* A bug variant of EndEpoch: the epochs counter is not advanced.
EndEpochUncounted ==
    /\ state = "Running"
    /\ epoch < num_epochs
    /\ i = train_len
    /\ epoch' = epoch + 1
    /\ i' = 0
    /\ UNCHANGED <<epochs, loss_hist, acc_hist, batches, stopVars, state,
                   configVars, evalVars, netVars, otherVars>>

\* The inner loop is exhausted: self.epochs += 1, and the next epoch.
EndEpoch ==
    /\ state = "Running"
    /\ epoch < num_epochs
    /\ i = train_len
    /\ epochs' = epochs + 1
    /\ epoch' = epoch + 1
    /\ i' = 0
    /\ UNCHANGED <<loss_hist, acc_hist, batches, stopVars, state,
                   configVars, evalVars, netVars, otherVars>>

\* A bug variant of Finish: train never returns.
FinishNever ==
    /\ state = "Running"
    /\ epoch = num_epochs
    /\ UNCHANGED vars

\* The outer loop is exhausted: train returns.
Finish ==
    /\ state = "Running"
    /\ epoch = num_epochs
    /\ state' = "Completed"
    /\ UNCHANGED <<epoch, i, histVars, stopVars, configVars, evalVars,
                   netVars, otherVars>>

Next ==
    \/ \E current_loss \in LossValues, acc \in AccValues, spikes \in TrainSpikes :
          TrainBatch(current_loss, acc, spikes)
    \/ EndEpoch
    \/ Finish

Spec == Init /\ [][Next]_vars

\* train is sequential code: it runs on while it has a step to take.
FairSpec == Spec /\ WF_vars(Next)

\* -------------------------------------------------------------- Net.__init__
\* Arguments of Net(...): timesteps, neurons per hidden layer (num_outputs
\* among them), and beta1 in tenths, in and out of [0, 1].
StepValues == {10, 25, 50}
NeuronValues == {5, num_outputs, 300}
BetaValues == {-1, 0, 5, 9, 10, 11}

\* Net(num_steps, num_hidden_neurons, num_hidden_layers, beta1) is called.
InitNet ==
    /\ num_steps \in StepValues
    /\ num_hidden_neurons \in NeuronValues
    /\ num_hidden_layers \in -1..MaxLayers
    /\ beta1 \in BetaValues
    /\ net_layers = <<>>
    /\ layer_n = 0
    /\ net_pc = "start"
    /\ forward_count = 0
    /\ total_spike_count = 0
    /\ training = TRUE
    /\ num_epochs = 0
    /\ patience = 0
    /\ sig_improvement = <<0, 1>>
    /\ train_len = 0
    /\ loss_hist = <<>>
    /\ acc_hist = <<>>
    /\ epochs = 0
    /\ batches = 0
    /\ best_loss = Inf
    /\ loss_counter = 0
    /\ epoch = 0
    /\ i = 0
    /\ state = "NotStarted"
    /\ ctor = "new"
    /\ error = "none"
    /\ EvalIdle
    /\ ObjectiveIdle
    /\ StudyIdle

\* The two asserts, then self.layers = [].
CheckArgs ==
    /\ net_pc = "start"
    /\ IF ~(0 <= beta1 /\ beta1 <= 10) \/ ~(num_hidden_layers >= 0)
       THEN /\ net_pc' = "AssertionError"
            /\ error' = "AssertionError"
       ELSE /\ net_pc' = "loop"
            /\ error' = error
    /\ net_layers' = <<>>
    /\ layer_n' = 0
    /\ UNCHANGED <<num_steps, num_hidden_neurons, beta1, configVars,
                   trainVars, evalVars, netVars, ctor, objVars, studyVars>>

\* The layer the loop body builds for index n: its nn.Linear's in and out
\* features, and which beta its snn.Leaky gets.
LayerAt(n) ==
    IF n = 0
    THEN [fc_in |-> num_inputs, fc_out |-> num_hidden_neurons, lif |-> "beta1"]
    ELSE IF n < num_hidden_layers
         THEN [fc_in |-> num_hidden_neurons, fc_out |-> num_hidden_neurons,
               lif |-> "beta2"]
         ELSE [fc_in |-> num_hidden_neurons, fc_out |-> num_outputs,
               lif |-> "beta2"]

\* One pass of "for n in range(num_hidden_layers + 1)".
BuildLayer ==
    /\ net_pc = "loop"
    /\ layer_n < num_hidden_layers + 1
    /\ net_layers' = Append(net_layers, LayerAt(layer_n))
    /\ layer_n' = layer_n + 1
    /\ UNCHANGED <<num_steps, num_hidden_neurons, beta1, net_pc, configVars,
                   trainVars, evalVars, netVars, ctor, error, objVars,
                   studyVars>>

\* The loop is exhausted: self.reset_spikes(), and __init__ returns.
EndBuild ==
    /\ net_pc = "loop"
    /\ layer_n = num_hidden_layers + 1
    /\ forward_count' = 0
    /\ total_spike_count' = 0
    /\ net_pc' = "built"
    /\ UNCHANGED <<num_steps, num_hidden_neurons, beta1, net_layers, layer_n,
                   training, configVars, trainVars, evalVars, ctor, error,
                   objVars, studyVars>>

NextNet ==
    \/ CheckArgs
    \/ BuildLayer
    \/ EndBuild

SpecNet == InitNet /\ [][NextNet]_vars

\* ------------------------------------- SNNTrainer.train: accuracy sampling
\* Loaders long enough for "i % 100 == 0 and i != 0" to be true: 100, 101
\* and MaxLongBatches batches per epoch.
LongLoaders == {AccEvery, AccEvery + 1, MaxLongBatches}
\* The loss of every batch of these runs.
LongLosses == {0}

\* A trainer over a long loader, with a small patience or the default one.
InitLong ==
    /\ num_epochs \in 1..MaxEpochs
    /\ patience \in {MaxPatience, DefaultPatience}
    /\ num_hidden_layers \in 1..MaxLayers
    /\ \E base \in BaseSignificance :
          sig_improvement = SigActual(base, num_hidden_layers)
    /\ loss_hist = <<>>
    /\ acc_hist = <<>>
    /\ epochs = 0
    /\ batches = 0
    /\ train_len \in LongLoaders
    /\ TrainEntry
    /\ EvalIdle
    /\ NetFresh
    /\ BuildIdle
    /\ TrainerOk
    /\ ObjectiveIdle
    /\ StudyIdle

NextLong ==
    \/ \E current_loss \in LongLosses, acc \in AccValues, spikes \in TrainSpikes :
          TrainBatch(current_loss, acc, spikes)
    \/ EndEpoch
    \/ Finish

SpecLong == InitLong /\ [][NextLong]_vars

\* ------------------------------------------- SNNTrainer.train: a step raises
\* The steps of a batch that call an external capability, in program order:
\* the loader's iterator, self.net(data), self.loss_fn, loss_val.backward()
\* and self.optimizer.step().
FailStages == {"batch_source", "forward", "loss", "backward", "optimizer"}
\* Exceptions such a capability can raise.
Errors == {"RuntimeError", "OverflowError"}

\* What the batch has done to the network when the step `stage` raises:
\* nothing before self.net.train(); a forward pass that raises has added
\* `partial` of its spikes and has not advanced forward_count; after it the
\* pass is complete.
BeforeRaise(stage, spikes, partial) ==
    IF stage = "batch_source"
    THEN UNCHANGED netVars
    ELSE /\ training' = TRUE
         /\ IF stage = "forward"
            THEN /\ total_spike_count' = total_spike_count + partial
                 /\ forward_count' = forward_count
            ELSE Forward(spikes)

\* A bug variant of TrainBatchRaises: the exception is caught and the loop
\* goes on with the next batch.
TrainBatchSwallows(stage, err, spikes, partial) ==
    /\ state = "Running"
    /\ epoch < num_epochs
    /\ i < train_len
    /\ BeforeRaise(stage, spikes, partial)
    /\ error' = err
    /\ i' = i + 1
    /\ UNCHANGED <<state, epoch, histVars, stopVars, configVars, evalVars,
                   buildVars, ctor, objVars, studyVars>>

\* The batch at index i raises err in step `stage`: train has no try, so the
\* exception leaves it, before line 401 appends to loss_hist.
TrainBatchRaises(stage, err, spikes, partial) ==
    /\ state = "Running"
    /\ epoch < num_epochs
    /\ i < train_len
    /\ BeforeRaise(stage, spikes, partial)
    /\ error' = err
    /\ state' = "Raised"
    /\ UNCHANGED <<epoch, i, histVars, stopVars, configVars, evalVars,
                   buildVars, ctor, objVars, studyVars>>

NextFail ==
    \/ Next
    \/ \E stage \in FailStages, err \in Errors, spikes \in TrainSpikes :
          \E partial \in 0..spikes :
             TrainBatchRaises(stage, err, spikes, partial)

\* train with capabilities that can raise.
SpecFail == Init /\ [][NextFail]_vars

\* ---------------------------------------- SNNTrainer.__init__, then train
\* Values a caller can pass as patience and as sig_improvement: __init__
\* takes whatever it is given.
CtorPatience == -1..MaxPatience
CtorSignificance == {<<-1, 20>>, <<0, 1>>, <<1, 20>>}

\* Before SNNTrainer(net, ...) is called: net is any network Net.__init__
\* accepts (num_hidden_layers >= 0), sig_improvement holds the argument.
InitCtor ==
    /\ num_epochs \in 1..MaxEpochs
    /\ patience \in CtorPatience
    /\ num_hidden_layers \in 0..MaxLayers
    /\ sig_improvement \in CtorSignificance
    /\ train_len \in 1..MaxBatches
    /\ loss_hist = <<>>
    /\ acc_hist = <<>>
    /\ epochs = 0
    /\ batches = 0
    /\ best_loss = Inf
    /\ loss_counter = 0
    /\ epoch = 0
    /\ i = 0
    /\ state = "NotStarted"
    /\ ctor = "new"
    /\ error = "none"
    /\ EvalIdle
    /\ NetFresh
    /\ BuildIdle
    /\ ObjectiveIdle
    /\ StudyIdle

\* SNNTrainer.__init__: the arguments are stored unchecked; line 371 divides
\* by net.num_hidden_layers**3, which raises ZeroDivisionError when that is 0
\* (the statements after it are then not reached).
ConstructTrainer ==
    /\ ctor = "new"
    /\ IF num_hidden_layers * num_hidden_layers * num_hidden_layers = 0
       THEN /\ ctor' = "ZeroDivisionError"
            /\ sig_improvement' = sig_improvement
       ELSE /\ ctor' = "ok"
            /\ sig_improvement' = SigActual(sig_improvement, num_hidden_layers)
    /\ loss_hist' = <<>>
    /\ acc_hist' = <<>>
    /\ epochs' = 0
    /\ batches' = 0
    /\ UNCHANGED <<num_epochs, patience, num_hidden_layers, train_len,
                   stopVars, loopVars, evalVars, netVars, buildVars, error,
                   objVars, studyVars>>

\* trainer.train(train_loader) is entered; there is a trainer to call it on
\* only if __init__ returned.
StartTrain ==
    /\ ctor = "ok"
    /\ state = "NotStarted"
    /\ best_loss' = Inf
    /\ loss_counter' = 0
    /\ epoch' = 0
    /\ i' = 0
    /\ state' = "Running"
    /\ UNCHANGED <<histVars, configVars, evalVars, netVars, otherVars>>

NextCtor ==
    \/ ConstructTrainer
    \/ StartTrain
    \/ Next

SpecCtor == InitCtor /\ [][NextCtor]_vars

\* --------------------------------------------------- SNNTrainer.get_accuracy
\* Exact fractions <<numerator, denominator>>, denominator > 0.
AddQ(a, b) == <<a[1] * b[2] + b[1] * a[2], a[2] * b[2]>>
ScaleQ(a, n) == <<a[1] * n, a[2]>>
EqQ(a, b) == a[1] * b[2] = b[1] * a[2]
LeqQ(a, b) == a[1] * b[2] <= b[1] * a[2]

\* A batch of the test loader: its number of samples, data.size(0), how
\* many of them the network classifies correctly, and the spikes the network
\* emits on it.
EvalBatches ==
    {b \in [size : 1..MaxBatchSize, correct : 0..MaxBatchSize,
            spikes : SpikeValues] :
        b.correct <= b.size}

\* The test loaders: finite sequences of batches.
TestLoaders == UNION {[1..n -> EvalBatches] : n \in 0..MaxEvalBatches}

\* acc = SF.accuracy_rate(spk_rec, targets): the fraction of the batch's
\* samples that are classified correctly.
AccuracyRate(b) == <<b.correct, b.size>>

\* A bug variant of EvalBatch: the mean of the batch accuracies.
EvalBatchUnweighted ==
    /\ eval_pc = "loop"
    /\ eval_idx < Len(test_loader)
    /\ LET b == test_loader[eval_idx + 1]
           acc == AccuracyRate(b)
       IN  /\ total_acc' = AddQ(total_acc, acc)
           /\ total' = total + 1
    /\ Forward(test_loader[eval_idx + 1].spikes)
    /\ eval_idx' = eval_idx + 1
    /\ UNCHANGED <<test_loader, eval_pc, eval_result, configVars, trainVars,
                   training, otherVars>>

\* A bug variant of EvalBatch: the batch is booked as a training batch.
EvalBatchBooked ==
    /\ eval_pc = "loop"
    /\ eval_idx < Len(test_loader)
    /\ LET b == test_loader[eval_idx + 1]
           acc == AccuracyRate(b)
       IN  /\ total_acc' = AddQ(total_acc, ScaleQ(acc, b.size))
           /\ total' = total + b.size
           /\ acc_hist' = Append(acc_hist, b.correct)
    /\ Forward(test_loader[eval_idx + 1].spikes)
    /\ eval_idx' = eval_idx + 1
    /\ batches' = batches + 1
    /\ UNCHANGED <<test_loader, eval_pc, eval_result, configVars, loss_hist,
                   epochs, stopVars, loopVars, training, otherVars>>

\* One pass through the body of the loop of get_accuracy.
EvalBatch ==
    /\ eval_pc = "loop"
    /\ eval_idx < Len(test_loader)
    /\ LET b == test_loader[eval_idx + 1]
           acc == AccuracyRate(b)
       IN  /\ total_acc' = AddQ(total_acc, ScaleQ(acc, b.size))
           /\ total' = total + b.size
    /\ Forward(test_loader[eval_idx + 1].spikes)
    /\ eval_idx' = eval_idx + 1
    /\ UNCHANGED <<test_loader, eval_pc, eval_result, configVars, trainVars,
                   training, otherVars>>

\* return total_acc / total, which raises ZeroDivisionError when total = 0.
EvalReturn ==
    /\ eval_pc = "loop"
    /\ eval_idx = Len(test_loader)
    /\ IF total = 0
       THEN eval_pc' = "ZeroDivisionError" /\ eval_result' = eval_result
       ELSE eval_pc' = "returned"
            /\ eval_result' = <<total_acc[1], total_acc[2] * total>>
    /\ UNCHANGED <<test_loader, eval_idx, total_acc, total, configVars, trainVars,
                   netVars, otherVars>>

\* get_accuracy is entered (with torch.no_grad(): self.net.eval()) on a
\* trainer as constructed with the defaults of the bounded ranges and a
\* network whose spike counters are reset, for any test loader.
InitEval ==
    /\ Constructed
    /\ num_epochs = MaxEpochs
    /\ patience = MaxPatience
    /\ num_hidden_layers = 1
    /\ train_len = MaxBatches
    /\ TrainEntry
    /\ test_loader \in TestLoaders
    /\ eval_idx = 0
    /\ total_acc = <<0, 1>>
    /\ total = 0
    /\ eval_pc = "loop"
    /\ eval_result = <<0, 1>>
    /\ forward_count = 0
    /\ total_spike_count = 0
    /\ training = FALSE
    /\ BuildIdle
    /\ TrainerOk
    /\ ObjectiveIdle
    /\ StudyIdle

NextEval ==
    \/ EvalBatch
    \/ EvalReturn

SpecEval == InitEval /\ [][NextEval]_vars

\* ------------------------------------------------------------ optuna_objective
\* The pruning limit of "if ... > 300*15".
PruneLimit == 300 * 15

\* Values trial.suggest_int / suggest_float hand out, from the ranges
\* Timesteps 10..50, Neurons per Hidden Layer 5..300, First Layer beta
\* 0.5..1 (in tenths); Hidden Layers 1..10 is cut at MaxLayers.
ObjSteps == {15, 16}
ObjNeurons == {5, 150, 300}
ObjBetas == {5, 10}
\* Lengths of train_loader, and the accuracy of a sampled training batch.
ObjTrainLens == (1..MaxBatches) \cup {MaxLongBatches}
ObjAccValues == {100}
\* validation_loader: full batches, classified all right or all wrong.
ValidationLoaders ==
    {l \in TestLoaders :
        \A k \in 1..Len(l) :
            l[k].size = MaxBatchSize /\ l[k].correct \in {0, MaxBatchSize}}

\* optuna_objective is entered and the hyperparameters are suggested; no
\* network and no trainer exist yet.  The trainer will get the defaults
\* num_epochs=30, patience=300, sig_improvement=0.05.
InitObjective ==
    /\ num_steps \in ObjSteps
    /\ num_hidden_layers \in 1..MaxLayers
    /\ num_hidden_neurons \in ObjNeurons
    /\ beta1 \in ObjBetas
    /\ net_layers = <<>>
    /\ layer_n = 0
    /\ net_pc = "idle"
    /\ NetFresh
    /\ num_epochs = DefaultEpochs
    /\ patience = DefaultPatience
    /\ sig_improvement = <<1, 20>>
    /\ train_len \in ObjTrainLens
    /\ loss_hist = <<>>
    /\ acc_hist = <<>>
    /\ epochs = 0
    /\ batches = 0
    /\ best_loss = Inf
    /\ loss_counter = 0
    /\ epoch = 0
    /\ i = 0
    /\ state = "NotStarted"
    /\ ctor = "new"
    /\ error = "none"
    /\ EvalIdle
    /\ obj_pc = "suggest"
    /\ spikes_per_digit = <<0, 1>>
    /\ StudyIdle

\* A bug variant of Gate: ">=" where the code has ">".
GateAtLimit ==
    /\ obj_pc = "suggest"
    /\ IF num_hidden_layers * num_hidden_neurons * num_steps >= PruneLimit
       THEN obj_pc' = "TrialPruned" /\ net_pc' = net_pc
       ELSE obj_pc' = "run" /\ net_pc' = "start"
    /\ UNCHANGED <<num_steps, num_hidden_neurons, beta1, net_layers, layer_n,
                   spikes_per_digit, configVars, trainVars, evalVars, netVars,
                   ctor, error, studyVars>>

\* "if num_hidden_layers*num_hidden_neurons*num_steps > 300*15: raise
\* TrialPruned", else on to the call Net(...).
Gate ==
    /\ obj_pc = "suggest"
    /\ IF num_hidden_layers * num_hidden_neurons * num_steps > PruneLimit
       THEN obj_pc' = "TrialPruned" /\ net_pc' = net_pc
       ELSE obj_pc' = "run" /\ net_pc' = "start"
    /\ UNCHANGED <<num_steps, num_hidden_neurons, beta1, net_layers, layer_n,
                   spikes_per_digit, configVars, trainVars, evalVars, netVars,
                   ctor, error, studyVars>>

\* A bug variant of ResetSpikes: the counters keep the training's spikes.
ResetSpikesSkipped ==
    /\ obj_pc = "run"
    /\ state \in {"StoppedEarly", "Completed"}
    /\ obj_pc' = "validate"
    /\ UNCHANGED <<forward_count, total_spike_count>>
    /\ UNCHANGED <<spikes_per_digit, training, configVars, trainVars, evalVars,
                   buildVars, ctor, error, studyVars>>

\* train has returned: net.reset_spikes().
ResetSpikes ==
    /\ obj_pc = "run"
    /\ state \in {"StoppedEarly", "Completed"}
    /\ obj_pc' = "validate"
    /\ forward_count' = 0
    /\ total_spike_count' = 0
    /\ UNCHANGED <<spikes_per_digit, training, configVars, trainVars, evalVars,
                   buildVars, ctor, error, studyVars>>

\* trainer.get_accuracy(validation_loader) is entered: the locals, and
\* self.net.eval().
GetAccuracy ==
    /\ obj_pc = "validate"
    /\ eval_pc = "idle"
    /\ test_loader' \in ValidationLoaders
    /\ eval_idx' = 0
    /\ total_acc' = <<0, 1>>
    /\ total' = 0
    /\ eval_pc' = "loop"
    /\ eval_result' = eval_result
    /\ training' = FALSE
    /\ UNCHANGED <<forward_count, total_spike_count, configVars, trainVars,
                   otherVars>>

\* get_accuracy has returned: net.get_spikes_per_digit() and the return of
\* both objectives; or it has raised, and the exception leaves the objective.
ObjectiveReturn ==
    /\ obj_pc = "validate"
    /\ eval_pc \in {"returned", "ZeroDivisionError"}
    /\ IF eval_pc = "returned" /\ forward_count # 0
       THEN /\ spikes_per_digit' = <<total_spike_count, forward_count>>
            /\ obj_pc' = "returned"
       ELSE /\ spikes_per_digit' = spikes_per_digit
            /\ obj_pc' = "ZeroDivisionError"
    /\ UNCHANGED <<configVars, trainVars, evalVars, netVars, buildVars, ctor,
                   error, studyVars>>

NextObjective ==
    \/ Gate
    \/ CheckArgs
    \/ BuildLayer
    \/ EndBuild
    \/ (net_pc = "built" /\ ConstructTrainer)
    \/ StartTrain
    \/ \E current_loss \in LongLosses, acc \in ObjAccValues,
          spikes \in TrainSpikes :
          TrainBatch(current_loss, acc, spikes)
    \/ EndEpoch
    \/ Finish
    \/ ResetSpikes
    \/ GetAccuracy
    \/ EvalBatch
    \/ EvalReturn
    \/ ObjectiveReturn

SpecObjective == InitObjective /\ [][NextObjective]_vars

\* --------------------------------------------------------------- the study
\* How a trial of study.optimize ends: the objective returns (COMPLETE) or
\* raises TrialPruned (PRUNED).
TrialStates == {"COMPLETE", "PRUNED"}

\* The cell is entered on a study with some completed trials: the
\* bookkeeping before the loop.
InitStudy ==
    /\ additional_trials \in 1..MaxAdditional
    /\ complete \in 0..MaxStart
    /\ pruned = 0
    /\ start_trials = complete
    /\ target_trials = start_trials + additional_trials
    /\ trials_left = 0
    /\ remaining_trials = 0
    /\ study_pc = "while"
    /\ Constructed
    /\ num_epochs = MaxEpochs
    /\ patience = MaxPatience
    /\ num_hidden_layers = 1
    /\ train_len = MaxBatches
    /\ TrainEntry
    /\ EvalIdle
    /\ NetFresh
    /\ BuildIdle
    /\ TrainerOk
    /\ ObjectiveIdle

\* completed_trials(study)
completed_trials == complete

\* "while completed_trials(study) < target_trials:" is true, and
\* study.optimize(..., n_trials=additional_trials) is called.
Optimize ==
    /\ study_pc = "while"
    /\ completed_trials < target_trials
    /\ trials_left' = additional_trials
    /\ study_pc' = "optimize"
    /\ UNCHANGED <<additional_trials, start_trials, target_trials, complete,
                   pruned, remaining_trials, configVars, trainVars, evalVars,
                   netVars, buildVars, ctor, error, objVars>>

\* One trial of the running study.optimize ends in state `outcome`.
RunTrial(outcome) ==
    /\ study_pc = "optimize"
    /\ trials_left > 0
    /\ IF outcome = "COMPLETE"
       THEN complete' = complete + 1 /\ pruned' = pruned
       ELSE pruned < MaxPruned /\ pruned' = pruned + 1 /\ complete' = complete
    /\ trials_left' = trials_left - 1
    /\ UNCHANGED <<additional_trials, start_trials, target_trials,
                   remaining_trials, study_pc, configVars, trainVars, evalVars,
                   netVars, buildVars, ctor, error, objVars>>

\* study.optimize has run its n_trials and returns: the bookkeeping after
\* it, and back to the loop test.
Bookkeeping ==
    /\ study_pc = "optimize"
    /\ trials_left = 0
    /\ LET total_completed == completed_trials
           completed == total_completed - start_trials
       IN  remaining_trials' = target_trials - completed - start_trials
    /\ study_pc' = "while"
    /\ UNCHANGED <<additional_trials, start_trials, target_trials, complete,
                   pruned, trials_left, configVars, trainVars, evalVars,
                   netVars, buildVars, ctor, error, objVars>>

\* The loop test is false: logger.info("DONE").
Done ==
    /\ study_pc = "while"
    /\ ~(completed_trials < target_trials)
    /\ study_pc' = "DONE"
    /\ UNCHANGED <<additional_trials, start_trials, target_trials, complete,
                   pruned, trials_left, remaining_trials, configVars,
                   trainVars, evalVars, netVars, buildVars, ctor, error,
                   objVars>>

NextStudy ==
    \/ Optimize
    \/ \E outcome \in TrialStates : RunTrial(outcome)
    \/ Bookkeeping
    \/ Done

SpecStudy == InitStudy /\ [][NextStudy]_vars

\* ------------------------------------------------- what the claims speak of
\* The significance as the trainer holds it: sig_improvement = SigNum/SigDen.
SigNum == sig_improvement[1]
SigDen == sig_improvement[2]

\* a <= b for losses, with Inf above every loss.
LossLeq(a, b) == b = Inf \/ (a # Inf /\ a <= b)

\* The least element of a non-empty sequence of losses.
MinOf(s) == CHOOSE m \in {s[k] : k \in 1..Len(s)} :
                \A k \in 1..Len(s) : m <= s[k]

\* Every loss of s is the same.
IsConstant(s) == \A k \in 1..Len(s) : s[k] = s[1]

\* Every loss of s is below the one before it by more than the fraction
\* sig_improvement:  s[k] < (1 - sig_improvement) * s[k-1].
SteepDecrease(s) ==
    \A k \in 2..Len(s) : s[k] * SigDen < (SigDen - SigNum) * s[k - 1]

\* <<best loss, stall counter>> of a metric tracker that was fed the first k
\* recorded losses, starting from <<Inf, 0>>.
RECURSIVE TrackerAfter(_)
TrackerAfter(k) ==
    IF k = 0
    THEN <<Inf, 0>>
    ELSE LET before == TrackerAfter(k - 1)
             loss == loss_hist[k]
             smaller == IF before[1] = Inf
                        THEN SigNum < SigDen
                        ELSE loss * SigDen < (SigDen - SigNum) * before[1]
         IN  IF smaller THEN <<loss, 0>> ELSE <<before[1], before[2] + 1>>

\* The early-stopping decision after the k-th recorded batch of the run
\* (k >= 1), which is a batch of epoch (k - 1) \div train_len.
DecisionAt(k) ==
    /\ (k - 1) \div train_len > 0
    /\ TrackerAfter(k)[2] > patience

\* A step of the run that processes one batch.
BatchStep == batches' = batches + 1

C2_FirstEpochNeverInterrupted ==
    /\ state = "StoppedEarly" => epoch > 0
    /\ (num_epochs >= 1 /\ (epoch > 0 \/ state # "Running")) =>
          /\ epochs >= 1
          /\ batches >= train_len
          /\ \A k \in 1..train_len : k <= Len(loss_hist)

C2_Witness ==
    /\ state = "Running"
    /\ epoch = 0
    /\ i = train_len
    /\ batches = train_len
    /\ loss_counter > patience

\* C3: on every batch, if the loss is strictly smaller than
\* (1 - sig_improvement) * best_loss then best_loss becomes the loss and the
\* stall counter 0, else best_loss stays and the counter grows by exactly 1;
\* and while every recorded loss is below the one before it by more than the
\* fraction sig_improvement, the counter is 0 after every batch.
C3_TrackerRule ==
    [][BatchStep =>
         LET loss == loss_hist'[Len(loss_hist')]
             smaller == IF best_loss = Inf
                        THEN SigNum < SigDen
                        ELSE loss * SigDen < (SigDen - SigNum) * best_loss
         IN  /\ IF smaller
                THEN best_loss' = loss /\ loss_counter' = 0
                ELSE best_loss' = best_loss /\ loss_counter' = loss_counter + 1
             /\ SteepDecrease(loss_hist') => loss_counter' = 0
      ]_vars

C3_Witness ==
    /\ SigNum > 0
    /\ Len(loss_hist) >= 3
    /\ SteepDecrease(loss_hist)
    /\ loss_counter = 0

\* C4: best_loss never increases from one batch to the next, and with
\* sig_improvement = 0 it is the least loss recorded so far after every batch.
C4_BestLossMonotone ==
    [][BatchStep =>
         /\ LossLeq(best_loss', best_loss)
         /\ SigNum = 0 => best_loss' = MinOf(loss_hist')
      ]_vars

C4_Witness ==
    /\ SigNum = 0
    /\ Len(loss_hist) >= 3
    /\ best_loss = 190
    /\ loss_hist[Len(loss_hist)] = 200

\* C5 as stated: on a constant loss sequence fed to a fresh tracker the stall
\* counter grows by 1 on every batch, and is patience + 1 after patience + 1
\* batches.
C5_ConstantLossCountsEveryBatch ==
    IsConstant(loss_hist) =>
        /\ loss_counter = Len(loss_hist)
        /\ Len(loss_hist) = patience + 1 => loss_counter = patience + 1

\* C5 as amended: on a constant sequence of non-negative losses (and
\* sig_improvement in [0,1)) the first batch is an improvement on the initial
\* inf, so it sets best_loss and leaves the counter 0; every later batch adds
\* exactly 1: the counter is n - 1 after n batches, and patience + 1 after
\* patience + 2 batches.
C5_ConstantLossCountsAfterFirst ==
    (IsConstant(loss_hist) /\ loss_hist # <<>>) =>
        /\ best_loss = loss_hist[1]
        /\ loss_counter = Len(loss_hist) - 1
        /\ Len(loss_hist) = patience + 2 => loss_counter = patience + 1

C5_Witness ==
    /\ patience >= 1
    /\ IsConstant(loss_hist)
    /\ Len(loss_hist) = patience + 2
    /\ loss_counter = patience + 1

\* C6: after the first epoch the run is stopped as soon as patience
\* consecutive batches have failed to improve: a run still going after a
\* batch of an epoch > 0 has fewer than patience stalled batches behind it.
C6_StopsAfterPatienceStalls ==
    (patience >= 1 /\ state = "Running" /\ epoch > 0 /\ i > 0) =>
        loss_counter < patience

\* C7: when the decision is true after a batch, train returns at once: the
\* epochs counter is not advanced for the interrupted epoch, and from then on
\* nothing is fetched or processed and loss_hist, acc_hist, batches and
\* epochs keep their values.
C7_StopIsImmediate ==
    /\ [][/\ (BatchStep /\ epoch > 0 /\ loss_counter' > patience) =>
                /\ state' = "StoppedEarly"
                /\ epochs' = epochs
                /\ <<epoch', i'>> = <<epoch, i>>
          /\ state = "StoppedEarly" => UNCHANGED trainVars
         ]_vars
    /\ [](state = "StoppedEarly" =>
             /\ ~ENABLED Next
             /\ Len(loss_hist) = batches
             /\ batches = epoch * train_len + i + 1
             /\ epochs = epoch)

C7_Witness ==
    /\ state = "StoppedEarly"
    /\ i + 1 < train_len
    /\ epoch + 1 < num_epochs

\* C8: the run ends Completed exactly when all num_epochs epochs were
\* iterated in full with the decision never true: then epochs = num_epochs
\* and batches = num_epochs * len(train_loader); a run that ends StoppedEarly
\* had the decision true at its last batch and at none before, and its epochs
\* counter is the number of epochs iterated in full before the stop.
C8_CompletedIffAllEpochs ==
    /\ state = "Completed" =>
          /\ epochs = num_epochs
          /\ batches = num_epochs * train_len
          /\ Len(loss_hist) = batches
          /\ \A k \in 1..batches : ~DecisionAt(k)
    /\ state = "StoppedEarly" =>
          /\ DecisionAt(batches)
          /\ \A k \in 1..(batches - 1) : ~DecisionAt(k)
          /\ epochs = (batches - 1) \div train_len
          /\ epochs < num_epochs
    /\ state = "Running" =>
          /\ \A k \in 1..batches : ~DecisionAt(k)
          /\ epoch = num_epochs =>
                (epochs = num_epochs /\ batches = num_epochs * train_len)

C8_Witness ==
    /\ state = "Completed"
    /\ num_epochs >= 2
    /\ train_len >= 2
    /\ loss_counter >= 1

\* C9: every run leaves Running for StoppedEarly or Completed, and a run
\* that has left Running takes no further step.
C9_Terminates ==
    /\ <>(state \in {"StoppedEarly", "Completed"})
    /\ [][state # "Running" => UNCHANGED vars]_vars
    /\ [](state \in {"Running", "StoppedEarly", "Completed"})

C9_Witness ==
    /\ state = "Completed"
    /\ batches = MaxEpochs * MaxBatches

\* sum(batch_accuracy * batch_size) over the first n batches of the loader.
RECURSIVE WeightedSum(_)
WeightedSum(n) ==
    IF n = 0
    THEN <<0, 1>>
    ELSE AddQ(WeightedSum(n - 1),
              ScaleQ(AccuracyRate(test_loader[n]), test_loader[n].size))

\* sum(batch_size) over the first n batches of the loader.
RECURSIVE SizeSum(_)
SizeSum(n) == IF n = 0 THEN 0 ELSE SizeSum(n - 1) + test_loader[n].size

\* Two batches of sizes 3 and 1 with accuracies 1.0 and 0.0.
UnevenLoader == <<[size |-> 3, correct |-> 3, spikes |-> 0],
                  [size |-> 1, correct |-> 0, spikes |-> 0]>>

\* C10: for a non-empty test loader get_accuracy returns
\* sum(a_i * s_i) / sum(s_i), a value in [0,1]; sizes 3 and 1 with accuracies
\* 1.0 and 0.0 give 0.75, not the mean 0.5 of the two accuracies.
C10_WeightedAccuracy ==
    /\ (eval_pc = "returned") <=>
          (eval_idx = Len(test_loader) /\ test_loader # <<>> /\ eval_pc # "loop")
    /\ eval_pc = "returned" =>
          LET n == Len(test_loader)
              sum == WeightedSum(n)
          IN  /\ EqQ(eval_result, <<sum[1], sum[2] * SizeSum(n)>>)
              /\ LeqQ(<<0, 1>>, eval_result)
              /\ LeqQ(eval_result, <<1, 1>>)
              /\ test_loader = UnevenLoader =>
                    (EqQ(eval_result, <<3, 4>>) /\ ~EqQ(eval_result, <<1, 2>>))

C10_Witness ==
    /\ eval_pc = "returned"
    /\ test_loader = UnevenLoader

\* C14: a batch step in which the batch source, the forward pass, the loss
\* or the parameter update raises ends train at once with that error: the
\* failed batch is not in loss_hist and not counted in batches (which count
\* the batches before it), nothing is retried, and no later step is taken.
C14_ErrorsPropagate ==
    /\ [](error = "none" <=> state # "Raised")
    /\ [](state = "Raised" =>
             /\ error \in Errors
             /\ Len(loss_hist) = batches
             /\ batches = epoch * train_len + i
             /\ epochs = epoch
             /\ ~ENABLED NextFail)
    /\ [][state' = "Raised" =>
             /\ state = "Running"
             /\ UNCHANGED <<histVars, stopVars, epoch, i>>]_vars
    /\ [][state = "Raised" => UNCHANGED vars]_vars

C14_Witness ==
    /\ state = "Raised"
    /\ error = "OverflowError"
    /\ epoch = 1
    /\ i = 1
    /\ batches = train_len + 1

\* C16: loss_hist is append-only with one entry per processed batch:
\* len(loss_hist) = batches after every step, the stopping batch included;
\* a batch step appends one entry and adds exactly 1 to batches; no step
\* changes or removes an earlier entry; and the end of an epoch leaves
\* batches as it is.
C16_LossHistAppendOnly ==
    /\ [](Len(loss_hist) = batches)
    /\ [](state = "StoppedEarly" => batches = epoch * train_len + i + 1)
    /\ [](state # "StoppedEarly" => batches = epoch * train_len + i)
    /\ [][/\ Len(loss_hist') \in {Len(loss_hist), Len(loss_hist) + 1}
          /\ SubSeq(loss_hist', 1, Len(loss_hist)) = loss_hist
          /\ (i' = i + 1 \/ state' = "StoppedEarly") =>
                batches' = batches + 1
          /\ epoch' # epoch => batches' = batches]_vars

C16_Witness ==
    /\ state = "StoppedEarly"
    /\ epoch = 2
    /\ train_len = 2
    /\ batches = 5
    /\ loss_hist = <<200, 190, 190, 190, 190>>

\* The number of positive multiples of AccEvery among the indices 0..n-1.
SamplesIn(n) == IF n = 0 THEN 0 ELSE (n - 1) \div AccEvery

\* The batches of the current epoch that have been processed.
DoneInEpoch == IF state = "StoppedEarly" THEN i + 1 ELSE i

\* C15 as stated: after n processed batches acc_hist holds floor(n / 100)
\* entries, n being counted over the whole run.
C15_SampledEveryHundredthOfRun ==
    Len(acc_hist) = batches \div AccEvery

\* C15: an accuracy is appended on exactly the batches whose index i within
\* the current epoch is a positive multiple of 100 (the index restarts at 0
\* with every epoch, and index 0 is skipped): after e whole epochs over a
\* loader of B batches and n batches of the current epoch acc_hist holds
\* e * floor((B - 1) / 100) + floor((n - 1) / 100) entries (0 for n = 0),
\* and earlier entries stay as they are.
C15_SampledByEpochIndex ==
    /\ [](Len(acc_hist) = epoch * SamplesIn(train_len) + SamplesIn(DoneInEpoch))
    /\ [][Len(acc_hist') = Len(acc_hist) + 1 <=>
             (batches' = batches + 1 /\ i % AccEvery = 0 /\ i # 0)]_vars
    /\ [][/\ Len(acc_hist') \in {Len(acc_hist), Len(acc_hist) + 1}
          /\ SubSeq(acc_hist', 1, Len(acc_hist)) = acc_hist]_vars

C15_Witness ==
    /\ state = "StoppedEarly"
    /\ train_len = MaxLongBatches
    /\ epoch = 1
    /\ i = AccEvery
    /\ Len(acc_hist) = 3

\* C12 as stated: construction with hidden_layers = 0 ends in a
\* ConfigurationError, and no batch is fetched or processed.
C12_ZeroLayersConfigurationError ==
    num_hidden_layers = 0 =>
        /\ ctor \in {"new", "ConfigurationError"}
        /\ state = "NotStarted"
        /\ batches = 0

\* C13 as stated: with patience < 0 or sig_improvement <= 0 (and a network
\* of at least one hidden layer) construction ends in a ConfigurationError
\* and no training run starts.
C13_BadArgumentsConfigurationError ==
    (num_hidden_layers >= 1 /\ (patience < 0 \/ sig_improvement[1] <= 0)) =>
        /\ ctor \in {"new", "ConfigurationError"}
        /\ state = "NotStarted"
        /\ batches = 0

\* C20 as stated: for every accepted num_hidden_layers (>= 0) the layer list
\* has num_hidden_layers + 1 layers, the first takes 784 inputs, each layer
\* takes the previous layer's outputs, and the last has exactly 10 outputs.
C20_LayerShapes ==
    net_pc = "built" =>
        /\ num_hidden_layers >= 0
        /\ Len(net_layers) = num_hidden_layers + 1
        /\ net_layers[1].fc_in = num_inputs
        /\ \A k \in 2..Len(net_layers) :
              net_layers[k].fc_in = net_layers[k - 1].fc_out
        /\ net_layers[Len(net_layers)].fc_out = num_outputs

\* hidden_layers * neurons_per_layer * timesteps of the trial.
Cost == num_hidden_layers * num_hidden_neurons * num_steps

\* C17: the objective raises TrialPruned exactly when the product is above
\* 4500; it does so with no network built, no trainer made and no batch
\* processed; and a trial at or below the limit goes on to build the
\* network, to construct the trainer and to enter train.
C17_PrunedIffTooExpensive ==
    /\ [](obj_pc # "suggest" => (obj_pc = "TrialPruned" <=> Cost > 4500))
    /\ [](obj_pc = "TrialPruned" =>
             /\ net_pc = "idle"
             /\ net_layers = <<>>
             /\ ctor = "new"
             /\ state = "NotStarted"
             /\ batches = 0
             /\ forward_count = 0
             /\ ~ENABLED NextObjective)
    /\ [](obj_pc = "run" =>
             /\ net_pc = "start" => ENABLED CheckArgs
             /\ net_pc = "loop" => ENABLED (BuildLayer \/ EndBuild)
             /\ (net_pc = "built" /\ ctor = "new") => ENABLED ConstructTrainer
             /\ ctor # "new" => ctor = "ok"
             /\ (ctor = "ok" /\ state = "NotStarted") => ENABLED StartTrain)

C17_Witness ==
    /\ Cost = 4500
    /\ num_hidden_layers = 1
    /\ net_pc = "built"
    /\ state = "Running"
    /\ batches = 1

\* The spikes of all batches of a loader.
RECURSIVE SpikeSum(_)
SpikeSum(l) == IF l = <<>> THEN 0
               ELSE l[Len(l)].spikes + SpikeSum(SubSeq(l, 1, Len(l) - 1))

\* C19: the counters are reset between train and get_accuracy, every
\* forward pass adds exactly 1 to forward_count, and the second objective
\* returned is the spikes of the validation passes divided by the number of
\* validation passes, whatever the training did.
C19_SpikesOfValidationOnly ==
    /\ [](obj_pc = "validate" =>
             /\ forward_count = eval_idx
             /\ total_spike_count = SpikeSum(SubSeq(test_loader, 1, eval_idx)))
    /\ [](obj_pc = "returned" =>
             /\ Len(test_loader) > 0
             /\ batches > 0
             /\ EqQ(spikes_per_digit,
                    <<SpikeSum(test_loader), Len(test_loader)>>))
    /\ [][(batches' = batches + 1 \/ eval_idx' = eval_idx + 1) =>
             forward_count' = forward_count + 1]_vars

C19_Witness ==
    /\ obj_pc = "returned"
    /\ state = "StoppedEarly"
    /\ batches = 302
    /\ Len(test_loader) = 2
    /\ spikes_per_digit = <<2, 2>>

\* A step of get_accuracy: its entry, a batch, or its return.
EvalStep == eval_pc' # eval_pc \/ eval_idx' # eval_idx

\* C11 as stated: get_accuracy changes neither the trainer's histories,
\* counters and early-stop state nor any state of the model.
C11_NoSideEffects ==
    [][EvalStep => UNCHANGED <<histVars, stopVars, netVars>>]_vars

\* C11: get_accuracy leaves loss_hist, acc_hist, epochs, batches, best_loss
\* and loss_counter unchanged, but it does change the model's state: it puts
\* the network in eval mode and leaves it there, and the forward pass of
\* each batch adds 1 to forward_count and the batch's spikes to
\* total_spike_count.
C11_ChangesOnlyTheNetCounters ==
    /\ [][EvalStep => UNCHANGED <<histVars, stopVars, configVars, loopVars>>]_vars
    /\ [][EvalStep => training' = FALSE]_vars
    /\ [][eval_idx' = eval_idx + 1 =>
             /\ forward_count' = forward_count + 1
             /\ total_spike_count' =
                   total_spike_count + test_loader[eval_idx'].spikes]_vars
    /\ [][(EvalStep /\ eval_idx' = eval_idx) =>
             UNCHANGED <<forward_count, total_spike_count>>]_vars
    /\ [](eval_pc = "returned" =>
             training = FALSE /\ forward_count = Len(test_loader))

C11_Witness ==
    /\ eval_pc = "returned"
    /\ training = FALSE
    /\ state = "Completed"
    /\ batches = DefaultEpochs
    /\ loss_counter = DefaultEpochs - 1
    /\ forward_count = 2
    /\ total_spike_count = 4

\* C18 as stated: when the loop exits the study has exactly target_trials
\* completed trials, whatever the mix of completed and pruned trials, and
\* the logged remaining_trials is never negative.
C18_ExactlyTargetTrials ==
    /\ study_pc = "DONE" => complete = target_trials
    /\ remaining_trials >= 0

====
